---- MODULE Spec2Model ----
(***************************************************************************)
(* A model of opc-ua-enum.py: the access-level classifier, the recursive   *)
(* address-space walk browse_node, the three browsing modes and main's     *)
(* scoped session.  The remote server is a finite node graph; every remote *)
(* lookup either returns what the graph holds or raises.                   *)
(***************************************************************************)
EXTENDS Integers, Sequences, FiniteSets, TLC

(***************************************************************************)
(* Bounds of the model.                                                    *)
(***************************************************************************)
\* largest value of --depth that is tried (the smallest is -1)
MaxDepthArg == 2
\* how many remote lookups may raise in one run
MaxFaults == 2
\* deepest nesting of browse_node calls that is followed
MaxRecursion == 5

(***************************************************************************)
(* ua.AccessLevel of the client library: an IntEnum of bit indices.        *)
(***************************************************************************)
CurrentRead == 0
CurrentWrite == 1
NumAccessFlags == 7
AccessFlags == 0..(NumAccessFlags - 1)

RECURSIVE Pow2(_)
Pow2(n) == IF n = 0 THEN 1 ELSE 2 * Pow2(n - 1)

\* Python's a & b on non-negative integers
RECURSIVE BitAnd(_, _)
BitAnd(a, b) ==
    IF a = 0 \/ b = 0 THEN 0
    ELSE (IF a % 2 = 1 /\ b % 2 = 1 THEN 1 ELSE 0) + 2 * BitAnd(a \div 2, b \div 2)

\* the bitmask integer that encodes a set of flags (bit i set iff flag i is in S)
RECURSIVE ToBitfield(_)
ToBitfield(S) ==
    IF S = {} THEN 0
    ELSE LET x == CHOOSE y \in S : TRUE IN Pow2(x) + ToBitfield(S \ {x})

\* the two representations of an access level, and anything else
AccessSet(S) == [rep |-> "set", flags |-> S, mask |-> 0]
AccessInt(m) == [rep |-> "int", flags |-> {}, mask |-> m]
AccessOther == [rep |-> "other", flags |-> {}, mask |-> 0]

get_access_level_label(access_level) ==
    IF access_level.rep = "set"
    THEN IF CurrentWrite \in access_level.flags THEN "Writable" ELSE "Read-only"
    ELSE IF access_level.rep = "int"
    THEN IF BitAnd(access_level.mask, CurrentWrite) # 0 THEN "Writable" ELSE "Read-only"
    ELSE "Unknown"

get_data_type_name(typeName, fails) ==
    IF fails THEN "Unknown type" ELSE typeName

(***************************************************************************)
(* The remote address space.  Node 0 is the Objects folder.                *)
(***************************************************************************)
ObjectsNode == 0
Nodes == 0..5
NoNode == -1
\* a well-formed NodeId that addresses no node of the server
GhostNode == 6

NoAdj == [n \in Nodes |-> <<>>]
RO == AccessSet({CurrentRead})
RW == AccessSet({CurrentRead, CurrentWrite})

\* the end-to-end scenario of the specification
Scenario ==
    [cls |-> (0 :> "Object" @@ 1 :> "Variable" @@ 2 :> "Object" @@ 3 :> "Method"
              @@ 4 :> "Variable" @@ 5 :> "Object"),
     name |-> (0 :> "Objects" @@ 1 :> "Temperature" @@ 2 :> "Controller" @@ 3 :> "Start"
               @@ 4 :> "Status" @@ 5 :> "Spare"),
     dtype |-> (0 :> "-" @@ 1 :> "Double" @@ 2 :> "-" @@ 3 :> "-" @@ 4 :> "Boolean" @@ 5 :> "-"),
     access |-> (0 :> RO @@ 1 :> RO @@ 2 :> RO @@ 3 :> RO @@ 4 :> RW @@ 5 :> RO),
     methods |-> [NoAdj EXCEPT ![2] = <<3>>],
     children |-> [NoAdj EXCEPT ![0] = <<1, 2>>, ![2] = <<4>>]]

\* a method that has children of its own (its argument descriptions) and a method
\* of its own
MethodWithArgs ==
    [Scenario EXCEPT
        !.cls = (0 :> "Object" @@ 1 :> "Object" @@ 2 :> "Method" @@ 3 :> "Variable"
                 @@ 4 :> "Variable" @@ 5 :> "Method"),
        !.name = (0 :> "Objects" @@ 1 :> "Controller" @@ 2 :> "Start" @@ 3 :> "Status"
                  @@ 4 :> "InputArguments" @@ 5 :> "Helper"),
        !.dtype = (0 :> "-" @@ 1 :> "-" @@ 2 :> "-" @@ 3 :> "Boolean" @@ 4 :> "Argument" @@ 5 :> "-"),
        !.access = (0 :> RO @@ 1 :> RO @@ 2 :> RO @@ 3 :> AccessInt(3) @@ 4 :> AccessInt(1)
                    @@ 5 :> RO),
        !.methods = [NoAdj EXCEPT ![1] = <<2>>, ![2] = <<5>>],
        !.children = [NoAdj EXCEPT ![0] = <<1>>, ![1] = <<3>>, ![2] = <<4>>]]

\* a node reachable by two paths, and a chain three levels deep
Shared ==
    [Scenario EXCEPT
        !.cls = (0 :> "Object" @@ 1 :> "Object" @@ 2 :> "Object" @@ 3 :> "Object"
                 @@ 4 :> "Variable" @@ 5 :> "Object"),
        !.name = (0 :> "Objects" @@ 1 :> "Left" @@ 2 :> "Controller" @@ 3 :> "Common"
                  @@ 4 :> "Leaf" @@ 5 :> "Spare"),
        !.dtype = (0 :> "-" @@ 1 :> "-" @@ 2 :> "-" @@ 3 :> "-" @@ 4 :> "Int32" @@ 5 :> "-"),
        !.access = (0 :> RO @@ 1 :> RO @@ 2 :> RO @@ 3 :> RO @@ 4 :> AccessOther @@ 5 :> RO),
        !.methods = NoAdj,
        !.children = [NoAdj EXCEPT ![0] = <<1, 2>>, ![1] = <<3>>, ![2] = <<3>>, ![3] = <<4>>]]

\* a reference cycle between two nodes below Objects
Cyclic ==
    [Scenario EXCEPT
        !.cls = (0 :> "Object" @@ 1 :> "Object" @@ 2 :> "Object" @@ 3 :> "Method"
                 @@ 4 :> "Variable" @@ 5 :> "Object"),
        !.name = (0 :> "Objects" @@ 1 :> "Ring" @@ 2 :> "Controller" @@ 3 :> "Start"
                  @@ 4 :> "Status" @@ 5 :> "Spare"),
        !.methods = NoAdj,
        !.children = [NoAdj EXCEPT ![0] = <<1>>, ![1] = <<2>>, ![2] = <<1>>]]

\* what the client library returns in practice: get_children lists the method too
MethodListedTwice ==
    [Scenario EXCEPT
        !.cls = (0 :> "Object" @@ 1 :> "Variable" @@ 2 :> "Object" @@ 3 :> "Method"
                 @@ 4 :> "Method" @@ 5 :> "Variable"),
        !.name = (0 :> "Objects" @@ 1 :> "Temperature" @@ 2 :> "Controller" @@ 3 :> "Start"
                  @@ 4 :> "Stop" @@ 5 :> "Status"),
        !.dtype = (0 :> "-" @@ 1 :> "Double" @@ 2 :> "-" @@ 3 :> "-" @@ 4 :> "-" @@ 5 :> "Boolean"),
        !.access = (0 :> RO @@ 1 :> RO @@ 2 :> RO @@ 3 :> RO @@ 4 :> RO @@ 5 :> RW),
        !.methods = [NoAdj EXCEPT ![2] = <<3, 4>>],
        !.children = [NoAdj EXCEPT ![0] = <<2, 1>>, ![2] = <<3, 5>>]]

Graphs == <<Scenario, MethodWithArgs, Shared, Cyclic, MethodListedTwice>>

(***************************************************************************)
(* The command line.                                                       *)
(***************************************************************************)
Modes == {"all", "enum-objects", "show-object"}
DepthArgs == (-1)..MaxDepthArg

Target(kind, node, name) == [kind |-> kind, node |-> node, name |-> name]
\* --nodeid: absent, the identifier of a node, a well-formed identifier of no node,
\* or a plain name (which does not parse as an identifier)
Targets ==
    {Target("absent", NoNode, ""), Target("ghost", GhostNode, "ns=2;i=9999"),
     Target("id", 2, "ns=2;i=2"), Target("name", NoNode, "Controller"),
     Target("name", NoNode, "DoesNotExist")}

Configs ==
    {[g |-> g, mode |-> "all", depth |-> 0, target |-> Target("absent", NoNode, ""),
      reachable |-> r] : g \in 1..Len(Graphs), r \in BOOLEAN}
    \cup
    {[g |-> g, mode |-> "enum-objects", depth |-> d, target |-> Target("absent", NoNode, ""),
      reachable |-> r] : g \in 1..Len(Graphs), d \in DepthArgs, r \in BOOLEAN}
    \cup
    {[g |-> g, mode |-> "show-object", depth |-> 0, target |-> t, reachable |-> r] :
        g \in 1..Len(Graphs), t \in Targets, r \in BOOLEAN}

VARIABLES
    cfg,         \* the parsed arguments and the server behind ip:port
    pc,          \* main's position
    session,     \* the Client: "none", "open" or "closed"
    acquired,    \* how many times a session was requested
    pending,     \* what is propagating out of the with block
    stack,       \* the nested browse_node calls, innermost last
    enumIdx,     \* enumerate_objects: the next top-level child
    probe,       \* browse_specific_object: how the literal lookup ended
    out,         \* the lines logged so far
    exitStatus,  \* the process's exit status, -1 while it runs
    nfail,       \* how many remote lookups raised so far
    accIn,       \* classifier run: the flags of the access level
    lblSet,      \* classifier run: the label of the flag-set form
    lblInt       \* classifier run: the label of the bitmask form

vars == <<cfg, pc, session, acquired, pending, stack, enumIdx, probe, out, exitStatus,
          nfail, accIn, lblSet, lblInt>>

G == Graphs[cfg.g]

(***************************************************************************)
(* Log lines.                                                              *)
(***************************************************************************)
Line(kind, path, depth, node, info) ==
    [kind |-> kind, path |-> path, depth |-> depth, node |-> node, info |-> info,
     dtype |-> "-", access |-> "-"]

Note(kind) == Line(kind, <<>>, 0, NoNode, "-")

WalkKinds == {"Desc", "Value", "ValueWarn", "Error"}

\* the call path of the innermost browse_node call: how each call was reached
\* ("s": the walk's start, "m": a method child, "c": a structural child) and its node
PathOf(stk) ==
    [j \in 1..Len(stk) |->
        <<IF j = 1 THEN "s" ELSE IF stk[j - 1].st = "methods" THEN "m" ELSE "c",
          stk[j].node>>]

Frame(node, depth) == [node |-> node, depth |-> depth, st |-> "entry", i |-> 1]

\* max_depth as the three call sites pass it: only enumerate_objects passes one
MaxDepthOf(c) ==
    IF c.mode = "enum-objects" THEN [set |-> TRUE, v |-> c.depth]
    ELSE [set |-> FALSE, v |-> 0]

\* the depth test off by one: the level max_depth itself is cut as well
DepthExceededOffByOne(depth, max_depth) == max_depth.set /\ depth >= max_depth.v

\* line 70: the depth test that opens browse_node
DepthExceeded(depth, max_depth) == max_depth.set /\ depth > max_depth.v

\* a loop that runs over the list backwards
IterItemReversed(list, i) == list[Len(list) + 1 - i]

\* the order in which a Python for loop hands out the items of a list
IterItem(list, i) == list[i]

Top == stack[Len(stack)]
Pop == SubSeq(stack, 1, Len(stack) - 1)
SetTop(f) == [stack EXCEPT ![Len(stack)] = f]

Init ==
    /\ cfg \in Configs
    /\ pc = "start"
    /\ session = "none"
    /\ acquired = 0
    /\ pending = "none"
    /\ stack = <<>>
    /\ enumIdx = 1
    /\ probe = "-"
    /\ out = <<>>
    /\ exitStatus = -1
    /\ nfail = 0
    /\ accIn = {}
    /\ lblSet = "-"
    /\ lblInt = "-"

classifierVars == <<accIn, lblSet, lblInt>>

(***************************************************************************)
(* main, lines 183-202.                                                    *)
(***************************************************************************)
\* with Client(url) as client: the connection is made on entry to the block; if it
\* cannot be made the block is never entered and the handler of line 201 logs it
Connect ==
    /\ pc = "start"
    /\ acquired' = acquired + 1
    /\ IF cfg.reachable
       THEN /\ session' = "open"
            /\ out' = out \o <<Note("Connecting"), Note("Connected")>>
            /\ pc' = "dispatch"
            /\ exitStatus' = exitStatus
       ELSE /\ session' = session
            /\ out' = out \o <<Note("Connecting"), Note("Failed")>>
            /\ pc' = "done"
            /\ exitStatus' = 0
    /\ UNCHANGED <<cfg, pending, stack, enumIdx, probe, nfail, classifierVars>>

\* lines 190-192
DispatchAll ==
    /\ pc = "dispatch" /\ cfg.mode = "all"
    /\ \E fault \in BOOLEAN :
        /\ fault => nfail < MaxFaults
        /\ nfail' = nfail + (IF fault THEN 1 ELSE 0)
        /\ out' = Append(out, Note("BrowsingAll"))
        /\ IF fault
           THEN pc' = "leave" /\ pending' = "Exception" /\ stack' = stack
           ELSE pc' = "walk" /\ pending' = pending
                /\ stack' = <<Frame(ObjectsNode, 0)>>
    /\ UNCHANGED <<cfg, session, acquired, enumIdx, probe, exitStatus, classifierVars>>

\* lines 193-194 and 117-119: what enumerate_objects does before its loop; a
\* lookup that raises here is not caught before main
DispatchEnum ==
    /\ pc = "dispatch" /\ cfg.mode = "enum-objects"
    /\ \E fault \in {"none", "objects", "children"} :
        /\ fault # "none" => nfail < MaxFaults
        /\ nfail' = nfail + (IF fault # "none" THEN 1 ELSE 0)
        /\ out' = IF fault = "objects" THEN out ELSE Append(out, Note("Enumerating"))
        /\ IF fault # "none"
           THEN pc' = "leave" /\ pending' = "Exception"
           ELSE pc' = "enum" /\ pending' = pending
    /\ enumIdx' = 1
    /\ UNCHANGED <<cfg, session, acquired, stack, probe, exitStatus, classifierVars>>

\* lines 119-121: the next top-level child is walked from depth 0.  browse_node
\* handles every Exception itself (lines 105-106), so the handler of lines 122-123
\* has nothing to catch
EnumNext ==
    /\ pc = "enum" /\ stack = <<>>
    /\ enumIdx <= Len(G.children[ObjectsNode])
    /\ stack' = <<Frame(IterItem(G.children[ObjectsNode], enumIdx), 0)>>
    /\ enumIdx' = enumIdx + 1
    /\ UNCHANGED <<cfg, pc, session, acquired, pending, probe, out, exitStatus, nfail,
                   classifierVars>>

EnumDone ==
    /\ pc = "enum" /\ stack = <<>>
    /\ enumIdx > Len(G.children[ObjectsNode])
    /\ pc' = "leave"
    /\ UNCHANGED <<cfg, session, acquired, pending, stack, enumIdx, probe, out, exitStatus,
                   nfail, classifierVars>>

(***************************************************************************)
(* browse_specific_object, lines 131-155.                                  *)
(***************************************************************************)
\* the index of the first child of Objects whose browse name is s, 0 if none
FirstNamed(s) ==
    LET kids == G.children[ObjectsNode]
        hits == {j \in 1..Len(kids) : G.name[kids[j]] = s}
    IN IF hits = {} THEN 0 ELSE CHOOSE j \in hits : \A k \in hits : j <= k

\* fp: the probe of line 136 raises on a node that exists; fs: where the name
\* search raises (0 nowhere, -1 get_objects_node, -2 get_children, j > 0 the
\* browse name of the j-th child); fl: get_browse_name of line 150 raises.
\* valid: every lookup chosen to raise is one the run makes.
Resolve(t, fp, fs, fl) ==
    LET kids == G.children[ObjectsNode]
        \* lines 135-136
        parsed == t.kind # "name"
        probeOk == t.kind = "id" /\ ~fp
        afterProbe == IF parsed THEN t.node ELSE NoNode
        \* lines 139-143
        hit == FirstNamed(t.name)
        lastRead == IF hit = 0 THEN Len(kids) ELSE hit
        searchRaises == ~probeOk /\ fs # 0
        found == IF ~probeOk /\ fs = 0 /\ hit # 0 THEN kids[hit] ELSE afterProbe
        \* line 150
        logRaises == found = GhostNode \/ fl
        validSearch == IF probeOk THEN fs = 0 ELSE fs \in (-2)..lastRead
        reachesLog == ~searchRaises /\ found # NoNode
        faults == (IF fp THEN 1 ELSE 0) + (IF fs # 0 THEN 1 ELSE 0) + (IF fl THEN 1 ELSE 0)
    IN [valid |-> /\ (fp => t.kind = "id")
                  /\ validSearch
                  /\ (fl => reachesLog /\ found # GhostNode),
        faults |-> faults,
        probe |-> IF probeOk THEN "ok" ELSE "failed",
        lines |-> IF searchRaises THEN <<Note("CouldNotBrowse")>>
                  ELSE IF found = NoNode THEN <<Note("NotFound")>>
                  ELSE IF logRaises THEN <<Note("CouldNotBrowse")>>
                  ELSE <<Line("BrowsingObject", <<>>, 0, found, "-")>>,
        start |-> IF reachesLog /\ ~logRaises THEN found ELSE NoNode]

\* lines 195-199
DispatchShow ==
    /\ pc = "dispatch" /\ cfg.mode = "show-object"
    /\ IF cfg.target.kind = "absent"
       THEN /\ out' = Append(out, Note("Usage"))
            /\ pending' = "SystemExit"
            /\ pc' = "leave"
            /\ UNCHANGED <<stack, probe, nfail>>
       ELSE \E fp \in BOOLEAN, fs \in (-2)..Len(G.children[ObjectsNode]), fl \in BOOLEAN :
                LET r == Resolve(cfg.target, fp, fs, fl) IN
                /\ r.valid
                /\ nfail + r.faults <= MaxFaults
                /\ nfail' = nfail + r.faults
                /\ probe' = r.probe
                /\ out' = out \o r.lines
                /\ stack' = IF r.start = NoNode THEN <<>> ELSE <<Frame(r.start, 0)>>
                /\ pc' = "walk"
                /\ pending' = pending
    /\ UNCHANGED <<cfg, session, acquired, enumIdx, exitStatus, classifierVars>>

\* the walk of mode all or show-object has returned
WalkDone ==
    /\ pc = "walk" /\ stack = <<>>
    /\ pc' = "leave"
    /\ UNCHANGED <<cfg, session, acquired, pending, stack, enumIdx, probe, out, exitStatus,
                   nfail, classifierVars>>

\* a session closed only by the code that follows the block, which sys.exit skips
LeaveWithoutCleanupOnExit ==
    /\ pc = "leave"
    /\ session' = IF pending = "SystemExit" THEN session ELSE "closed"
    /\ out' = IF pending = "Exception" THEN Append(out, Note("Failed")) ELSE out
    /\ exitStatus' = IF pending = "SystemExit" THEN 1 ELSE 0
    /\ pc' = "done"
    /\ UNCHANGED <<cfg, acquired, pending, stack, enumIdx, probe, nfail, classifierVars>>

\* leaving the with block, lines 186 and 201-202: the client is disconnected
\* whatever leaves the block; an Exception is then logged and the process ends
\* normally, sys.exit(1) is no Exception and ends the process with status 1
LeaveWith ==
    /\ pc = "leave"
    /\ session' = "closed"
    /\ out' = IF pending = "Exception" THEN Append(out, Note("Failed")) ELSE out
    /\ exitStatus' = IF pending = "SystemExit" THEN 1 ELSE 0
    /\ pc' = "done"
    /\ UNCHANGED <<cfg, acquired, pending, stack, enumIdx, probe, nfail, classifierVars>>

(***************************************************************************)
(* browse_node, lines 65-106.  One frame of the stack per nested call; st  *)
(* is the call's position: "entry", "described" (its line is out),         *)
(* "methods" and "children" (inside the two loops).                        *)
(***************************************************************************)
Walking == pc \in {"walk", "enum"} /\ stack # <<>>

HeaderFaults == {"none", "class", "name", "id", "access"}

\* lines 74-96: what is logged for one node.  hf: the lookup of lines 75-81 that
\* raises; fd: the data type cannot be resolved; fv: get_value raises.
Describe(node, depth, path, hf, fd, fv) ==
    LET isVar == G.cls[node] = "Variable"
        err == Line("Error", path, depth, node, hf)
        desc == Line("Desc", path, depth, node, G.cls[node])
        vdesc == [desc EXCEPT !.dtype = get_data_type_name(G.dtype[node], fd),
                              !.access = get_access_level_label(G.access[node])]
        val == Line(IF fv THEN "ValueWarn" ELSE "Value", path, depth, node, "-")
    IN IF hf \in {"class", "name", "id"}
       THEN [ok |-> FALSE, lines |-> <<err>>, faults |-> 1, valid |-> ~fd /\ ~fv]
       ELSE IF isVar
       THEN IF hf = "access"
            THEN [ok |-> FALSE, lines |-> <<err>>, faults |-> 1, valid |-> ~fd /\ ~fv]
            ELSE [ok |-> TRUE, lines |-> <<vdesc, val>>,
                  faults |-> (IF fd THEN 1 ELSE 0) + (IF fv THEN 1 ELSE 0), valid |-> TRUE]
       ELSE [ok |-> TRUE, lines |-> <<desc>>, faults |-> 0,
             valid |-> hf = "none" /\ ~fd /\ ~fv]

\* browse_node without the handler of lines 105-106: a lookup that raises unwinds
\* every nested call, up to the handler of the mode that started the walk
BrowseEnterUncaught ==
    /\ Walking /\ Top.st = "entry"
    /\ IF DepthExceeded(Top.depth, MaxDepthOf(cfg))
       THEN stack' = Pop /\ UNCHANGED <<out, nfail>>
       ELSE \E hf \in HeaderFaults, fd \in BOOLEAN, fv \in BOOLEAN :
                LET d == Describe(Top.node, Top.depth, PathOf(stack), hf, fd, fv) IN
                /\ d.valid
                /\ nfail + d.faults <= MaxFaults
                /\ nfail' = nfail + d.faults
                /\ out' = IF d.ok THEN out \o d.lines
                          ELSE Append(out, Note(IF cfg.mode = "enum-objects"
                                                THEN "CouldNotBrowseChild"
                                                ELSE "CouldNotBrowse"))
                /\ stack' = IF d.ok THEN SetTop([Top EXCEPT !.st = "described"]) ELSE <<>>
    /\ UNCHANGED <<cfg, pc, session, acquired, pending, enumIdx, probe, exitStatus,
                   classifierVars>>

\* lines 70-96 and 105-106
BrowseEnter ==
    /\ Walking /\ Top.st = "entry"
    /\ IF DepthExceeded(Top.depth, MaxDepthOf(cfg))
       THEN stack' = Pop /\ UNCHANGED <<out, nfail>>
       ELSE \E hf \in HeaderFaults, fd \in BOOLEAN, fv \in BOOLEAN :
                LET d == Describe(Top.node, Top.depth, PathOf(stack), hf, fd, fv) IN
                /\ d.valid
                /\ nfail + d.faults <= MaxFaults
                /\ nfail' = nfail + d.faults
                /\ out' = out \o d.lines
                /\ stack' = IF d.ok THEN SetTop([Top EXCEPT !.st = "described"]) ELSE Pop
    /\ UNCHANGED <<cfg, pc, session, acquired, pending, enumIdx, probe, exitStatus,
                   classifierVars>>

\* an Exception raised between lines 98 and 103 in the innermost call: logged by
\* line 106, and the call returns
Caught(cause) ==
    /\ nfail < MaxFaults
    /\ nfail' = nfail + 1
    /\ out' = Append(out, Line("Error", PathOf(stack), Top.depth, Top.node, cause))
    /\ stack' = Pop

\* methods listed as leaves: a Method node's own methods and children are skipped
BrowseGetMethodsLeaf ==
    /\ Walking /\ Top.st = "described"
    /\ IF G.cls[Top.node] = "Method"
       THEN stack' = Pop /\ UNCHANGED <<out, nfail>>
       ELSE \/ Caught("methods")
            \/ /\ stack' = SetTop([Top EXCEPT !.st = "methods", !.i = 1])
               /\ UNCHANGED <<out, nfail>>
    /\ UNCHANGED <<cfg, pc, session, acquired, pending, enumIdx, probe, exitStatus,
                   classifierVars>>

\* line 99: node.get_methods()
BrowseGetMethods ==
    /\ Walking /\ Top.st = "described"
    /\ \/ Caught("methods")
       \/ /\ stack' = SetTop([Top EXCEPT !.st = "methods", !.i = 1])
          /\ UNCHANGED <<out, nfail>>
    /\ UNCHANGED <<cfg, pc, session, acquired, pending, enumIdx, probe, exitStatus,
                   classifierVars>>

\* line 100: browse_node(method, client, depth + 1, max_depth)
BrowseNextMethod ==
    /\ Walking /\ Top.st = "methods"
    /\ Top.i <= Len(G.methods[Top.node])
    /\ Len(stack) < MaxRecursion
    /\ stack' = Append(SetTop([Top EXCEPT !.i = Top.i + 1]),
                       Frame(IterItem(G.methods[Top.node], Top.i), Top.depth + 1))
    /\ UNCHANGED <<cfg, pc, session, acquired, pending, enumIdx, probe, out, exitStatus,
                   nfail, classifierVars>>

\* line 102: node.get_children(), once the loop over the methods is over
BrowseGetChildren ==
    /\ Walking /\ Top.st = "methods"
    /\ Top.i > Len(G.methods[Top.node])
    /\ \/ Caught("children")
       \/ /\ stack' = SetTop([Top EXCEPT !.st = "children", !.i = 1])
          /\ UNCHANGED <<out, nfail>>
    /\ UNCHANGED <<cfg, pc, session, acquired, pending, enumIdx, probe, exitStatus,
                   classifierVars>>

\* the nested call made with depth instead of depth + 1
BrowseNextChildSameDepth ==
    /\ Walking /\ Top.st = "children"
    /\ Top.i <= Len(G.children[Top.node])
    /\ Len(stack) < MaxRecursion
    /\ stack' = Append(SetTop([Top EXCEPT !.i = Top.i + 1]),
                       Frame(IterItem(G.children[Top.node], Top.i), Top.depth))
    /\ UNCHANGED <<cfg, pc, session, acquired, pending, enumIdx, probe, out, exitStatus,
                   nfail, classifierVars>>

\* line 103: browse_node(child, client, depth + 1, max_depth)
BrowseNextChild ==
    /\ Walking /\ Top.st = "children"
    /\ Top.i <= Len(G.children[Top.node])
    /\ Len(stack) < MaxRecursion
    /\ stack' = Append(SetTop([Top EXCEPT !.i = Top.i + 1]),
                       Frame(IterItem(G.children[Top.node], Top.i), Top.depth + 1))
    /\ UNCHANGED <<cfg, pc, session, acquired, pending, enumIdx, probe, out, exitStatus,
                   nfail, classifierVars>>

\* the loop over the children is over: the call returns
BrowseReturn ==
    /\ Walking /\ Top.st = "children"
    /\ Top.i > Len(G.children[Top.node])
    /\ stack' = Pop
    /\ UNCHANGED <<cfg, pc, session, acquired, pending, enumIdx, probe, out, exitStatus,
                   nfail, classifierVars>>

\* a further nested call would pass the deepest nesting that is followed: the run
\* is left there
RecursionOverflow ==
    /\ Walking /\ Len(stack) >= MaxRecursion
    /\ \/ Top.st = "methods" /\ Top.i <= Len(G.methods[Top.node])
       \/ Top.st = "children" /\ Top.i <= Len(G.children[Top.node])
    /\ pc' = "exhausted"
    /\ UNCHANGED <<cfg, session, acquired, pending, stack, enumIdx, probe, out, exitStatus,
                   nfail, classifierVars>>

Next ==
    \/ Connect
    \/ DispatchAll
    \/ DispatchEnum
    \/ EnumNext
    \/ EnumDone
    \/ DispatchShow
    \/ WalkDone
    \/ LeaveWith
    \/ BrowseEnter
    \/ BrowseGetMethods
    \/ BrowseNextMethod
    \/ BrowseGetChildren
    \/ BrowseNextChild
    \/ BrowseReturn
    \/ RecursionOverflow

Spec == Init /\ [][Next]_vars

\* the program is sequential and every lookup returns or raises: a step that can
\* be taken is taken
FairSpec == Init /\ [][Next]_vars /\ WF_vars(Next)

(***************************************************************************)
(* The classifier on its own: one access level in its two representations. *)
(***************************************************************************)
ClassifyInit ==
    /\ cfg \in {c \in Configs : c.g = 1 /\ c.mode = "all" /\ c.reachable}
    /\ pc = "classify"
    /\ session = "none"
    /\ acquired = 0
    /\ pending = "none"
    /\ stack = <<>>
    /\ enumIdx = 1
    /\ probe = "-"
    /\ out = <<>>
    /\ exitStatus = -1
    /\ nfail = 0
    /\ accIn \in SUBSET AccessFlags
    /\ lblSet = "-"
    /\ lblInt = "-"

Classify ==
    /\ pc = "classify"
    /\ lblSet' = get_access_level_label(AccessSet(accIn))
    /\ lblInt' = get_access_level_label(AccessInt(ToBitfield(accIn)))
    /\ pc' = "classified"
    /\ UNCHANGED <<cfg, session, acquired, pending, stack, enumIdx, probe, out, exitStatus,
                   nfail, accIn>>

ClassifyNext == Classify

ClassifySpec == ClassifyInit /\ [][ClassifyNext]_vars

(***************************************************************************)
(* Vocabulary of the properties.                                           *)
(***************************************************************************)
Done == pc = "done"
\* the session was opened and no lookup made so far has raised
FailureFree == cfg.reachable /\ nfail = 0
WalkIdx == {i \in DOMAIN out : out[i].kind \in WalkKinds}
IsPrefix(p, q) == Len(p) <= Len(q) /\ SubSeq(q, 1, Len(p)) = p
Front(p) == SubSeq(p, 1, Len(p) - 1)
Last(p) == p[Len(p)]
Range(list) == {list[j] : j \in DOMAIN list}
PosIn(list, x) == CHOOSE j \in DOMAIN list : list[j] = x
Kids == G.children[ObjectsNode]
\* the nodes one reference away from n
Succ(n) == Range(G.methods[n]) \cup Range(G.children[n])

RECURSIVE ReachWithin(_, _)
ReachWithin(S, k) ==
    IF k <= 0 THEN S ELSE ReachWithin(S \cup UNION {Succ(n) : n \in S}, k - 1)

\* the nodes at distance at most k from s
Within(s, k) == IF k < 0 THEN {} ELSE ReachWithin({s}, k)
ReachableFrom(s) == ReachWithin({s}, Cardinality(Nodes))
OnCycle(n) == n \in ReachWithin(Succ(n), Cardinality(Nodes))
CycleReachableFrom(s) == \E n \in ReachableFrom(s) : OnCycle(n)
HasLine(path) == \E i \in WalkIdx : out[i].path = path
HasDesc(path) == \E i \in WalkIdx : out[i].path = path /\ out[i].kind = "Desc"
HasError(path, causes) ==
    \E i \in WalkIdx : out[i].path = path /\ out[i].kind = "Error" /\ out[i].info \in causes

(***************************************************************************)
(* C1.  Depth limiting is exact: in a walk started at depth 0 with         *)
(* max_depth = k >= 0 in which no lookup fails, no line is logged at a     *)
(* depth above k, the depth of a line is the length of the call path to    *)
(* its node, and once the run is over a node has a descriptor line in the  *)
(* walk iff its distance from the walk's start node is at most k.          *)
(***************************************************************************)
DepthLimitExact ==
    (cfg.mode = "enum-objects" /\ cfg.depth >= 0 /\ FailureFree) =>
        /\ \A i \in WalkIdx :
            /\ out[i].depth <= cfg.depth
            /\ out[i].depth = Len(out[i].path) - 1
        /\ Done =>
            \A s \in Range(Kids) : \A n \in Nodes :
                (\E i \in WalkIdx : /\ out[i].kind = "Desc"
                                    /\ out[i].node = n
                                    /\ out[i].path[1] = <<"s", s>>)
                <=> n \in Within(s, cfg.depth)

\* a finished walk that printed a node at depth k = 1 and left out a node at distance 2
DepthLimitWitness ==
    /\ Done /\ cfg.mode = "enum-objects" /\ cfg.depth = 1 /\ FailureFree
    /\ \E i \in WalkIdx : out[i].kind = "Desc" /\ out[i].depth = 1
    /\ \E s \in Range(Kids) : \E n \in Within(s, 2) \ Within(s, 1) :
        ~ \E i \in WalkIdx : out[i].node = n /\ out[i].path[1] = <<"s", s>>

(***************************************************************************)
(* C2 as stated.  Method children are leaves of the walk: no line is ever  *)
(* logged for a node reached through a method child.                       *)
(***************************************************************************)
MethodsAreLeaves ==
    \A i \in WalkIdx :
        \A j \in 1..(Len(out[i].path) - 1) : out[i].path[j][1] # "m"

(***************************************************************************)
(* C2 as amended.  A method child is walked by the same browse_node as a   *)
(* structural child: it has one descriptor line, at its parent's depth     *)
(* plus one, and unless the depth limit cuts them or a lookup on the       *)
(* method node raises, each of its own methods and structural children     *)
(* is walked one level deeper.                                             *)
(***************************************************************************)
MethodsAreWalkedLikeChildren ==
    Done =>
        \A i \in WalkIdx :
            (out[i].kind = "Desc" /\ Last(out[i].path)[1] = "m") =>
                LET p == out[i].path
                    n == out[i].node
                    deeper == ~DepthExceeded(out[i].depth + 1, MaxDepthOf(cfg))
                IN /\ Cardinality({j \in WalkIdx : out[j].path = p /\ out[j].kind = "Desc"}) = 1
                   /\ \E j \in WalkIdx : /\ out[j].kind = "Desc"
                                         /\ out[j].path = Front(p)
                                         /\ out[j].depth + 1 = out[i].depth
                   /\ (deeper /\ ~HasError(p, {"methods"})) =>
                        \A x \in Range(G.methods[n]) : HasLine(Append(p, <<"m", x>>))
                   /\ (deeper /\ ~HasError(p, {"methods", "children"})) =>
                        \A x \in Range(G.children[n]) : HasLine(Append(p, <<"c", x>>))

\* a finished run that printed a structural child of a method child
MethodChildWalkedWitness ==
    /\ Done
    /\ \E i \in WalkIdx :
        /\ out[i].kind = "Desc"
        /\ Len(out[i].path) >= 2
        /\ Last(out[i].path)[1] = "c"
        /\ out[i].path[Len(out[i].path) - 1][1] = "m"

(***************************************************************************)
(* C5.  The session is requested at most once, and a session that was      *)
(* opened is closed when the process ends, whichever way the with block    *)
(* was left.                                                               *)
(***************************************************************************)
SessionReleased ==
    /\ acquired <= 1
    /\ session = "open" => pc \notin {"start", "done"}
    /\ Done => session = (IF cfg.reachable THEN "closed" ELSE "none")

\* the process ended by sys.exit(1) inside the block, the session closed
SessionReleasedWitness ==
    Done /\ exitStatus = 1 /\ pending = "SystemExit" /\ session = "closed"

(***************************************************************************)
(* C3.  In show-object mode, when the literal-identifier lookup does not   *)
(* succeed and no direct child of Objects bears the target as its browse   *)
(* name, exactly one "not found" report is logged, it is the last line,    *)
(* and browse_node is never called.  Stated for the runs in which no       *)
(* lookup raises for a transient reason.                                   *)
(***************************************************************************)
NotFoundReportedOnce ==
    (/\ Done /\ cfg.mode = "show-object" /\ FailureFree
     /\ probe = "failed" /\ FirstNamed(cfg.target.name) = 0) =>
        /\ Cardinality({i \in DOMAIN out : out[i].kind = "NotFound"}) = 1
        /\ out[Len(out)].kind = "NotFound"
        /\ WalkIdx = {}
        /\ \A i \in DOMAIN out : out[i].kind \notin {"BrowsingObject", "CouldNotBrowse"}

(***************************************************************************)
(* C4.  show-object without --nodeid: the usage error is reported and the  *)
(* process exits with status 1, whether or not the server can be           *)
(* reached; every other run exits with status 0.                           *)
(***************************************************************************)
UsageErrorAlwaysReported ==
    Done =>
        IF cfg.mode = "show-object" /\ cfg.target.kind = "absent"
        THEN exitStatus = 1 /\ \E i \in DOMAIN out : out[i].kind = "Usage"
        ELSE exitStatus = 0

(***************************************************************************)
(* C6.  A failure to read a node's class, browse name or identifier is     *)
(* contained: one error line is logged for the call, there is no other     *)
(* line for the node or below it on that call path, nothing propagates     *)
(* out of browse_node, and every later sibling is still walked (the        *)
(* structural children of the parent too, unless its get_children raises). *)
(***************************************************************************)
HeaderCauses == {"class", "name", "id"}

LaterIn(list, x) == {list[j] : j \in {k \in DOMAIN list : k > PosIn(list, x)}}

HeaderFailureContained ==
    /\ \A i \in DOMAIN out : out[i].kind # "CouldNotBrowseChild"
    /\ Done =>
        \A i \in WalkIdx :
            (out[i].kind = "Error" /\ out[i].info \in HeaderCauses) =>
                LET q == out[i].path
                    p == Front(q)
                    e == Last(q)
                IN /\ \A j \in WalkIdx \ {i} : ~IsPrefix(q, out[j].path)
                   /\ nfail = 1 =>
                        \A j \in DOMAIN out : out[j].kind \notin {"Failed", "CouldNotBrowse"}
                   /\ IF Len(q) = 1
                      THEN cfg.mode = "enum-objects" =>
                            \A x \in LaterIn(Kids, e[2]) : HasLine(<<<<"s", x>>>>)
                      ELSE LET parent == Last(p)[2] IN
                           IF e[1] = "m"
                           THEN /\ \A x \in LaterIn(G.methods[parent], e[2]) :
                                    HasLine(Append(p, <<"m", x>>))
                                /\ ~HasError(p, {"children"}) =>
                                    \A x \in Range(G.children[parent]) :
                                        HasLine(Append(p, <<"c", x>>))
                           ELSE \A x \in LaterIn(G.children[parent], e[2]) :
                                    HasLine(Append(p, <<"c", x>>))

\* a finished run in which a method child could not be read and a later sibling
\* of it was printed
HeaderFailureWitness ==
    /\ Done
    /\ \E i, j \in WalkIdx :
        /\ out[i].kind = "Error" /\ out[i].info \in HeaderCauses
        /\ Len(out[i].path) > 1 /\ Last(out[i].path)[1] = "m"
        /\ i < j /\ out[j].kind = "Desc"
        /\ Len(out[j].path) = Len(out[i].path)
        /\ Front(out[j].path) = Front(out[i].path)

(***************************************************************************)
(* C7.  Every node within the depth bound that is reached from the start   *)
(* node through get_children calls that succeed, and whose own and whose   *)
(* ancestors' class, name and identifier reads succeed, has its descriptor *)
(* line, whatever else fails on any node.                                  *)
(***************************************************************************)
RECURSIVE ChildPaths(_, _)
\* the call paths, of at most len nodes, that extend p through structural children
ChildPaths(p, len) ==
    IF Len(p) >= len THEN {p}
    ELSE {p} \cup UNION {ChildPaths(Append(p, <<"c", x>>), len) :
                            x \in Range(G.children[Last(p)[2]])}

\* the nodes browse_node was started on
Starts ==
    IF ~cfg.reachable \/ pending = "Exception" THEN {}
    ELSE IF cfg.mode = "all" THEN {ObjectsNode}
    ELSE IF cfg.mode = "enum-objects" THEN Range(Kids)
    ELSE {out[i].node : i \in {j \in DOMAIN out : out[j].kind = "BrowsingObject"}}

PathLimit == IF MaxDepthOf(cfg).set THEN MaxDepthOf(cfg).v + 1 ELSE Cardinality(Nodes)

EverythingResolvedIsPrinted ==
    Done =>
        \A s \in Starts : \A P \in ChildPaths(<<<<"s", s>>>>, PathLimit) :
            (/\ ~DepthExceeded(Len(P) - 1, MaxDepthOf(cfg))
             /\ \A k \in 1..Len(P) : ~HasError(SubSeq(P, 1, k), HeaderCauses)
             /\ \A k \in 1..(Len(P) - 1) : ~HasError(SubSeq(P, 1, k), {"children"}))
            => HasDesc(P)

(***************************************************************************)
(* C8.  The classifier gives one label to the flag set and to the bitmask  *)
(* that encodes the same flags, and the label is "Writable" exactly when   *)
(* the currently-writable flag is among them, "Read-only" otherwise.       *)
(***************************************************************************)
ClassifyAgrees ==
    pc = "classified" =>
        /\ lblSet = lblInt
        /\ lblSet = (IF CurrentWrite \in accIn THEN "Writable" ELSE "Read-only")
        /\ lblInt = (IF CurrentWrite \in accIn THEN "Writable" ELSE "Read-only")

(***************************************************************************)
(* C9.  While no lookup fails the output is in depth-first pre-order: a    *)
(* descriptor line comes before every other line of its call path and      *)
(* below; a Variable's descriptor is followed at once by its value line;   *)
(* under one node the lines of the method children come before those of    *)
(* the structural children; and inside one enumeration the lines of one    *)
(* child and below all come before those of a child the session returned   *)
(* later.                                                                  *)
(***************************************************************************)
\* how many leading elements two call paths share
CommonLen(p, q) ==
    Cardinality({k \in 1..Len(p) : k <= Len(q) /\ SubSeq(p, 1, k) = SubSeq(q, 1, k)})

\* the call reached by e is made before the call reached by f; both are made by
\* the call on node parent, or are walk starts of enumerate_objects
CalledBefore(e, f, parent) ==
    IF e[1] = "s" THEN PosIn(Kids, e[2]) < PosIn(Kids, f[2])
    ELSE IF e[1] # f[1] THEN e[1] = "m"
    ELSE IF e[1] = "m" THEN PosIn(G.methods[parent], e[2]) < PosIn(G.methods[parent], f[2])
    ELSE PosIn(G.children[parent], e[2]) < PosIn(G.children[parent], f[2])

PreOrderOutput ==
    FailureFree =>
        \A i \in WalkIdx :
            /\ out[i].kind \in {"Desc", "Value"}
            /\ out[i].kind = "Value" =>
                /\ (i - 1) \in WalkIdx
                /\ out[i - 1].kind = "Desc"
                /\ out[i - 1].path = out[i].path
            /\ (out[i].kind = "Desc" /\ G.cls[out[i].node] = "Variable") =>
                /\ (i + 1) \in WalkIdx
                /\ out[i + 1].kind = "Value"
                /\ out[i + 1].path = out[i].path
            /\ \A j \in WalkIdx \ {i} :
                LET p == out[i].path
                    q == out[j].path
                    c == CommonLen(p, q)
                IN /\ (out[i].kind = "Desc" /\ IsPrefix(p, q)) => i < j
                   /\ (c < Len(p) /\ c < Len(q)
                       /\ CalledBefore(p[c + 1], q[c + 1], IF c = 0 THEN NoNode ELSE p[c][2]))
                      => i < j

\* a finished failure-free run with a method child's line ahead of a structural
\* child's, two children of one enumeration in the session's order, and a value line
PreOrderWitness ==
    /\ Done /\ FailureFree
    /\ \E i, j \in WalkIdx :
        /\ i < j /\ Len(out[i].path) > 1 /\ Len(out[j].path) = Len(out[i].path)
        /\ Front(out[i].path) = Front(out[j].path)
        /\ Last(out[i].path)[1] = "m" /\ Last(out[j].path)[1] = "c"
    /\ \E i, j \in WalkIdx :
        /\ i < j /\ Len(out[i].path) > 1 /\ Len(out[j].path) = Len(out[i].path)
        /\ Front(out[i].path) = Front(out[j].path)
        /\ Last(out[i].path)[1] = "c" /\ Last(out[j].path)[1] = "c"
        /\ Last(out[i].path)[2] # Last(out[j].path)[2]
    /\ \E i \in WalkIdx : out[i].kind = "Value"

(***************************************************************************)
(* C10.  With max_depth = k the depth argument of a nested call never      *)
(* exceeds k + 1, the nesting never outgrows k + 2 calls, and the run      *)
(* ends on every graph, cycles included.  Without max_depth the run ends   *)
(* on every graph that has no cycle, the nesting bounded by the number of  *)
(* nodes; on a cycle that can be reached from the start node the nesting   *)
(* grows past every bound unless a lookup raises.                          *)
(***************************************************************************)
Bounded == MaxDepthOf(cfg).set
GraphAcyclic == \A n \in Nodes : ~OnCycle(n)
Exhausted == pc = "exhausted"

RecursionBounded ==
    /\ Bounded =>
        /\ \A j \in DOMAIN stack : stack[j].depth <= MaxDepthOf(cfg).v + 1
        /\ Len(stack) <= MaxDepthOf(cfg).v + 2
        /\ ~Exhausted
    /\ (~Bounded /\ GraphAcyclic) =>
        /\ Len(stack) <= Cardinality(Nodes)
        /\ ~Exhausted
    /\ \A j \in DOMAIN stack : stack[j].depth = j - 1

UnboundedWalkOnCycle ==
    /\ ~Bounded /\ Walking /\ nfail = 0
    /\ CycleReachableFrom(stack[1].node)

WalkTerminates ==
    /\ []RecursionBounded
    /\ (Bounded \/ GraphAcyclic) => <>Done
    /\ UnboundedWalkOnCycle ~> (Exhausted \/ nfail > 0)

\* a depth-limited walk of the graph with the cycle that went round it and ended
WalkTerminatesWitness ==
    /\ Done /\ FailureFree /\ Bounded /\ cfg.depth >= 2
    /\ \E i, j \in WalkIdx :
        /\ i < j /\ out[i].node = out[j].node
        /\ IsPrefix(out[i].path, out[j].path)
        /\ out[j].depth = cfg.depth

====
